---------------------------- MODULE Spec2Model ----------------------------
(***************************************************************************)
(* Keyed token-bucket rate limiting (falconry/token-bucket).               *)
(*                                                                         *)
(* Threads share one MemoryStorage and one Limiter.  Every access to the   *)
(* shared table or to the clock is one step of a thread, so that steps of  *)
(* different threads interleave the way the unlocked code allows.          *)
(*                                                                         *)
(* Numbers.  The code keeps token counts and timestamps as floats.  The    *)
(* model keeps them exactly: the clock counts ticks, and a stored token    *)
(* count is an integer number of 1/Unit tokens.  Rate is the Limiter's     *)
(* rate in 1/Unit tokens per tick, Capacity its capacity in whole tokens,  *)
(* and a request of n tokens debits n * Unit.  One workload, SpecFloat,    *)
(* keeps them as the code does, as binary64 floats whose every operation   *)
(* rounds, for what depends on the rounding.                               *)
(***************************************************************************)
EXTENDS Integers, Sequences, FiniteSets, TLC

\* ------------------------------------------------------------------ bounds

Unit == 2

Rate == 1

Capacity == 1

MaxClock == 2

Threads == {"t1", "t2", "t3"}

\* The threads most workloads run; the third joins where a claim needs it.
Pair == {"t1", "t2"}

Keys == {"a", "b"}

\* ------------------------------------------------------- argument domains

\* Python's None, the empty string, and a non-empty list (truthy but
\* unhashable) as key arguments of Limiter.consume.
KeyNone == "None"

KeyEmpty == ""

KeyUnhashable == "[1]"

NoKey == "-"

KeyArgs == Keys \cup {KeyNone, KeyEmpty, KeyUnhashable}

\* num_tokens arguments: None, or an int.
NumNone == [kind |-> "None", val |-> 0]

NumInt(n) == [kind |-> "int", val |-> n]

NumArgs == {NumNone} \cup {NumInt(n) : n \in -1 .. Capacity + 1}

\* Requests the storage is called with directly (num_tokens >= 1).
NumTokens == 1 .. Capacity + 1

Min(a, b) == IF a <= b THEN a ELSE b

\* ------------------------------------------------------- Limiter.__init__

\* A rate argument: None, a str, an int or a float; a float may be NaN,
\* for which every comparison is false.
RateArgs ==
    {[kind |-> "None", val |-> 0, nan |-> FALSE],
     [kind |-> "str", val |-> 0, nan |-> FALSE],
     [kind |-> "float", val |-> 0, nan |-> TRUE]}
    \cup [kind : {"int", "float"}, val : -1 .. 2, nan : {FALSE}]

CapacityArgs ==
    {[kind |-> "None", val |-> 0],
     [kind |-> "str", val |-> 0]}
    \cup [kind : {"int", "float"}, val : -1 .. 2]

StorageArgs == {"MemoryStorage", "object", "None"}

\* rate <= 0 as Python evaluates it on a number.
RateLeZero(rate) == ~rate.nan /\ rate.val <= 0

\* The outcome of Limiter(rate, capacity, storage): "ok" or the error raised.
LimiterInit(rate, capacity, storage) ==
    IF rate.kind \notin {"float", "int"} THEN "TypeError"
    ELSE IF RateLeZero(rate) THEN "ValueError"
    ELSE IF capacity.kind # "int" THEN "TypeError"
    ELSE IF capacity.val < 1 THEN "ValueError"
    ELSE IF storage # "MemoryStorage" THEN "TypeError"
    ELSE "ok"

\* ------------------------------------------------- Limiter.consume checks

\* `not key`: None and the empty string are falsy.
KeyFalsy(key) == key \in {KeyNone, KeyEmpty}

\* A validation that lets a request for no tokens through.
LimiterValidateLax(key, num) ==
    IF KeyFalsy(key)
    THEN (IF key = KeyNone THEN "TypeError" ELSE "ValueError")
    ELSE IF num.kind = "None" THEN "TypeError"
    ELSE IF num.val < 0 THEN "ValueError"
    ELSE "ok"

\* The validation of Limiter.consume(key, num_tokens): "ok" or the error.
LimiterValidate(key, num) ==
    IF KeyFalsy(key)
    THEN (IF key = KeyNone THEN "TypeError" ELSE "ValueError")
    ELSE IF num.kind = "None" THEN "TypeError"
    ELSE IF num.val < 1 THEN "ValueError"
    ELSE "ok"

\* ------------------------------------------------------- MemoryStorage

\* One slot for all keys.
SlotOfAll(key) == CHOOSE k \in Keys : TRUE

\* The slot of _buckets that `self._buckets[key]` selects: the key's own.
Slot(key) == key

\* An entry of _buckets: the two-element list [tokens, last_replenished_at];
\* exists is false for a key that has no entry.
NoEntry == [exists |-> FALSE, tokens |-> 0, last |-> 0]

\* A replenish that forgets the cap.
ReplenishedUncapped(tokens_in_bucket, last_replenished_at, now, rate, capacity) ==
    tokens_in_bucket + (rate * (now - last_replenished_at))

\* A replenish that counts the time since the clock's origin, not since
\* the last replenishment.
ReplenishedSinceZero(tokens_in_bucket, last_replenished_at, now, rate, capacity) ==
    IF capacity <= tokens_in_bucket + (rate * now)
    THEN capacity
    ELSE tokens_in_bucket + (rate * now)

\* A replenish that drops what the bucket held.
ReplenishedAfresh(tokens_in_bucket, last_replenished_at, now, rate, capacity) ==
    IF capacity <= rate * (now - last_replenished_at)
    THEN capacity
    ELSE rate * (now - last_replenished_at)

\* A replenish that stores whole tokens only, dropping the fraction.
ReplenishedWhole(tokens_in_bucket, last_replenished_at, now, rate, capacity) ==
    Min(capacity,
        ((tokens_in_bucket + (rate * (now - last_replenished_at))) \div Unit)
            * Unit)

\* The value replenish stores for an existing bucket.
ReplenishedTokens(tokens_in_bucket, last_replenished_at, now, rate, capacity) ==
    Min(capacity, tokens_in_bucket + (rate * (now - last_replenished_at)))

\* A guard that fires whatever the clock reads.
RegressedAlways(now, last_replenished_at) == TRUE

\* The regression guard of replenish.
Regressed(now, last_replenished_at) == now < last_replenished_at

\* A bucket created empty.
InitialEmpty(capacity) == 0

\* The token count of a bucket created by replenish.
InitialTokens(capacity) == capacity

\* A test that also refuses a request for all the bucket holds.
NonConformingIfEqual(tokens_in_bucket, num_tokens) ==
    tokens_in_bucket <= num_tokens

\* A test for an empty bucket only.
NonConformingIfEmpty(tokens_in_bucket, num_tokens) == tokens_in_bucket <= 0

\* consume's test: the request is non-conforming.
NonConforming(tokens_in_bucket, num_tokens) == tokens_in_bucket < num_tokens

\* A debit that tests the count again and leaves it if it falls short.
DebitedIfCovered(tokens_in_bucket, num_tokens) ==
    IF tokens_in_bucket < num_tokens
    THEN tokens_in_bucket
    ELSE tokens_in_bucket - num_tokens

\* A debit that keeps whole tokens only.
DebitedWhole(tokens_in_bucket, num_tokens) ==
    ((tokens_in_bucket - num_tokens) \div Unit) * Unit

\* A debit that falls short of the request.
DebitedPartly(tokens_in_bucket, num_tokens) ==
    tokens_in_bucket - (num_tokens - 1)

\* The value consume stores back.
Debited(tokens_in_bucket, num_tokens) == tokens_in_bucket - num_tokens

\* StorageBase, the storage whose entries are tuples: every write binds the
\* key to a new tuple.  b is the entry under the key when the call is made
\* (exists false if there is none), now what time.time() returns in it.

\* StorageBase.get_token_count's return value.
StorageBaseGetTokenCount(b) == IF b.exists THEN b.tokens ELSE 0

\* The entry StorageBase.replenish leaves.
StorageBaseReplenish(b, now, rate, capacity) ==
    IF ~b.exists
    THEN [exists |-> TRUE, tokens |-> capacity, last |-> now]
    ELSE IF now < b.last
         THEN b
         ELSE [exists |-> TRUE,
               tokens |-> Min(capacity, b.tokens + (rate * (now - b.last))),
               last |-> now]

\* What StorageBase.consume returns or raises.
StorageBaseConsumeResult(b, num_tokens) ==
    IF ~b.exists THEN "KeyError"
    ELSE IF b.tokens < num_tokens THEN "False"
    ELSE "True"

\* The entry StorageBase.consume leaves.
StorageBaseConsume(b, num_tokens) ==
    IF b.exists /\ ~(b.tokens < num_tokens)
    THEN [exists |-> TRUE, tokens |-> b.tokens - num_tokens, last |-> b.last]
    ELSE b

\* ------------------------------------------------------------- Python floats
\* The code's token counts and clock readings are Python floats: IEEE 754
\* binary64, every operation rounded to the nearest representable number,
\* ties to the even one.  The numbers that occur here are finite and not
\* negative, and far from the subnormal range and from overflow.

\* A natural number of any size is the sequence of its digits in base
\* LimbBase, lowest first, without a leading zero digit; zero is <<>>.
LimbBits == 12

LimbBase == 2 ^ LimbBits

RECURSIVE NatTrim(_)
NatTrim(n) ==
    IF Len(n) = 0 THEN <<>>
    ELSE IF n[Len(n)] = 0 THEN NatTrim(SubSeq(n, 1, Len(n) - 1))
    ELSE n

RECURSIVE NatOfInt(_)
NatOfInt(i) ==
    IF i = 0 THEN <<>> ELSE <<i % LimbBase>> \o NatOfInt(i \div LimbBase)

NatDigit(n, i) == IF i >= 1 /\ i <= Len(n) THEN n[i] ELSE 0

RECURSIVE NatAddFrom(_, _, _, _)
NatAddFrom(a, b, i, carry) ==
    IF i > Len(a) /\ i > Len(b)
    THEN (IF carry = 0 THEN <<>> ELSE <<carry>>)
    ELSE LET s == NatDigit(a, i) + NatDigit(b, i) + carry
         IN  <<s % LimbBase>> \o NatAddFrom(a, b, i + 1, s \div LimbBase)

NatAdd(a, b) == NatTrim(NatAddFrom(a, b, 1, 0))

RECURSIVE NatSubFrom(_, _, _, _)
NatSubFrom(a, b, i, borrow) ==
    IF i > Len(a) THEN <<>>
    ELSE LET d == NatDigit(a, i) - NatDigit(b, i) - borrow
         IN  IF d < 0
             THEN <<d + LimbBase>> \o NatSubFrom(a, b, i + 1, 1)
             ELSE <<d>> \o NatSubFrom(a, b, i + 1, 0)

\* a - b, for a >= b.
NatSub(a, b) == NatTrim(NatSubFrom(a, b, 1, 0))

RECURSIVE NatMulDigitFrom(_, _, _, _)
NatMulDigitFrom(a, d, i, carry) ==
    IF i > Len(a)
    THEN (IF carry = 0 THEN <<>> ELSE <<carry>>)
    ELSE LET p == (a[i] * d) + carry
         IN  <<p % LimbBase>> \o NatMulDigitFrom(a, d, i + 1, p \div LimbBase)

RECURSIVE NatMulFrom(_, _, _)
NatMulFrom(a, b, i) ==
    IF i > Len(b) THEN <<>>
    ELSE NatAddFrom(NatMulDigitFrom(a, b[i], 1, 0),
                    <<0>> \o NatMulFrom(a, b, i + 1), 1, 0)

NatMul(a, b) == NatTrim(NatMulFrom(a, b, 1))

RECURSIVE NatLessFrom(_, _, _)
NatLessFrom(a, b, i) ==
    IF i = 0 THEN FALSE
    ELSE IF a[i] # b[i] THEN a[i] < b[i]
    ELSE NatLessFrom(a, b, i - 1)

NatLess(a, b) ==
    IF Len(a) # Len(b) THEN Len(a) < Len(b) ELSE NatLessFrom(a, b, Len(a))

RECURSIVE IntBitLen(_)
IntBitLen(i) == IF i = 0 THEN 0 ELSE 1 + IntBitLen(i \div 2)

\* The number of binary digits of n.
NatBitLen(n) ==
    IF Len(n) = 0 THEN 0
    ELSE ((Len(n) - 1) * LimbBits) + IntBitLen(n[Len(n)])

\* n * 2^k.
NatShl(n, k) ==
    LET q == k \div LimbBits
        r == k % LimbBits
        s == LimbBits - r
    IN  NatTrim([i \in 1 .. q |-> 0]
                \o [i \in 1 .. Len(n) + 1 |->
                       ((NatDigit(n, i) % (2 ^ s)) * (2 ^ r))
                           + (NatDigit(n, i - 1) \div (2 ^ s))])

\* n \div 2^k.
NatShr(n, k) ==
    LET q == k \div LimbBits
        r == k % LimbBits
        s == LimbBits - r
    IN  NatTrim([i \in 1 .. Len(n) - q |->
                    (NatDigit(n, i + q) \div (2 ^ r))
                        + ((NatDigit(n, i + q + 1) % (2 ^ r)) * (2 ^ s))])

\* Binary digit i of n, the lowest being digit 0.
NatBit(n, i) ==
    (NatDigit(n, (i \div LimbBits) + 1) \div (2 ^ (i % LimbBits))) % 2

\* The k lowest binary digits of n are all zero.
NatLowZero(n, k) == NatShl(NatShr(n, k), k) = n

\* A float is m * 2^e with m of exactly FloatBits binary digits, or zero.
FloatBits == 53

FloatZero == [m |-> <<>>, e |-> 0]

\* The float nearest to n * 2^e, the even one of two equally near.
FloatRound(n, e) ==
    LET len == NatBitLen(n)
    IN  IF len = 0 THEN FloatZero
        ELSE IF len <= FloatBits
        THEN [m |-> NatShl(n, FloatBits - len), e |-> e - (FloatBits - len)]
        ELSE LET k == len - FloatBits
                 q == NatShr(n, k)
                 up == /\ NatBit(n, k - 1) = 1
                       /\ (NatBit(n, k) = 1 \/ ~NatLowZero(n, k - 1))
                 r == IF up THEN NatAdd(q, <<1>>) ELSE q
             IN  IF NatBitLen(r) > FloatBits
                 THEN [m |-> NatShr(r, 1), e |-> e + k + 1]
                 ELSE [m |-> r, e |-> e + k]

\* float(i) of an int i >= 0.
FloatOfInt(i) == FloatRound(NatOfInt(i), 0)

\* The number whose hexadecimal digits are given, highest first: three of
\* them make one digit in base LimbBase.
NatOfHex(digits) ==
    LET hex(j) == IF j >= 1 THEN digits[j] ELSE 0
    IN  NatTrim([i \in 1 .. (Len(digits) + 2) \div 3 |->
                    hex(Len(digits) - (3 * (i - 1)))
                        + (16 * hex(Len(digits) - (3 * (i - 1)) - 1))
                        + (256 * hex(Len(digits) - (3 * (i - 1)) - 2))])

\* float.fromhex: the float written 0xd.ddd...pP, digits being d, d, d, ...
FloatFromHex(digits, p) ==
    FloatRound(NatOfHex(digits), p - (4 * (Len(digits) - 1)))

\* x + y.
FloatAdd(x, y) ==
    LET e == IF x.e <= y.e THEN x.e ELSE y.e
    IN  FloatRound(NatAdd(NatShl(x.m, x.e - e), NatShl(y.m, y.e - e)), e)

\* x - y, for x >= y.
FloatSub(x, y) ==
    LET e == IF x.e <= y.e THEN x.e ELSE y.e
    IN  FloatRound(NatSub(NatShl(x.m, x.e - e), NatShl(y.m, y.e - e)), e)

\* x * y.
FloatMul(x, y) == FloatRound(NatMul(x.m, y.m), x.e + y.e)

\* x < y.
FloatLess(x, y) ==
    LET e == IF x.e <= y.e THEN x.e ELSE y.e
    IN  NatLess(NatShl(x.m, x.e - e), NatShl(y.m, y.e - e))

\* A float replenish that counts the time since the clock's origin, not
\* since the last replenishment.
FloatReplenishedSinceZero(tokens_in_bucket, last_replenished_at, now, rate, capacity) ==
    LET accrued == FloatAdd(tokens_in_bucket, FloatMul(rate, now))
    IN  IF FloatLess(accrued, capacity) THEN accrued ELSE capacity

\* The value replenish stores for an existing bucket, as Python computes
\* `min(capacity, tokens_in_bucket + (rate * (now - last_replenished_at)))`
\* on floats: each operation rounds, and min returns capacity unless the
\* sum is less.
FloatReplenishedTokens(tokens_in_bucket, last_replenished_at, now, rate, capacity) ==
    LET accrued == FloatAdd(tokens_in_bucket,
                            FloatMul(rate, FloatSub(now, last_replenished_at)))
    IN  IF FloatLess(accrued, capacity) THEN accrued ELSE capacity

\* The entry a replenish(key, rate, capacity) with which no other call is
\* interleaved leaves, b being the entry it finds (exists false if there
\* is none) and now what time.monotonic() returns in it.
FloatReplenished(b, now, rate, capacity) ==
    IF ~b.exists
    THEN [exists |-> TRUE, tokens |-> FloatOfInt(capacity), last |-> now]
    ELSE IF FloatLess(now, b.last) THEN b
    ELSE [exists |-> TRUE,
          tokens |-> FloatReplenishedTokens(b.tokens, b.last, now,
                                            FloatOfInt(rate),
                                            FloatOfInt(capacity)),
          last |-> now]

\* ------------------------------------------------------------------- state

VARIABLES
    clock,                \* time.monotonic(), in ticks
    buckets,              \* MemoryStorage._buckets: key -> entry
    pc,                   \* where each thread is in its call
    op,                   \* the call each thread is in
    key,                  \* its key argument
    num_tokens,           \* its num_tokens argument (None, or whole tokens)
    tokens_in_bucket,     \* local of replenish
    last_replenished_at,  \* local of replenish
    now,                  \* local of replenish
    item,                 \* the list `_buckets[key][0] -= n` holds
    loaded,               \* the element 0 it read from that list
    ret,                  \* what storage.consume returned
    result,               \* what the thread's call returned or raised
    count,                \* the number get_token_count returned
    snap,                 \* history: the entry when the storage call began
    calls,                \* history: storage calls of this Limiter.consume
    audit,                \* whether the three histories below are kept
    granted,              \* history: tokens granted per key
    created,              \* history: clock value of the bucket's creation
    overlapped,           \* history: two calls on the key have overlapped
    seen,                 \* history: what the call's replenish read
    args,                 \* the arguments given to Limiter(...)
    limiter               \* the outcome of Limiter(...)

vars ==
    <<clock, buckets, pc, op, key, num_tokens, tokens_in_bucket,
      last_replenished_at, now, item, loaded, ret, result, count, snap,
      calls, audit, granted, created, overlapped, seen, args, limiter>>

locals == <<tokens_in_bucket, last_replenished_at, now, item, loaded>>

ctor == <<args, limiter>>

\* The most tokens the history counts per key before it stops counting.
GrantedCap == Capacity + ((Rate * MaxClock) \div Unit) + 1

\* item: no list held, the list that is the table's entry, or a list that
\* replenish has since replaced in the table (nothing reads it again).
NoItem == "none"

EntryItem == "entry"

OrphanItem == "orphan"

\* seen, kept (on) or not: whether the replenish found an entry, the
\* (tokens, last_replenished_at) it read, and the clock value it read.
NotSeen == [on |-> FALSE, found |-> FALSE, tokens |-> 0, last |-> 0, now |-> 0]

Unseen == [on |-> TRUE, found |-> FALSE, tokens |-> 0, last |-> 0, now |-> 0]

NoSnap == [valid |-> FALSE, exists |-> FALSE, tokens |-> 0, last |-> 0]

SnapOf(k) ==
    [valid |-> TRUE, exists |-> buckets[k].exists,
     tokens |-> buckets[k].tokens, last |-> buckets[k].last]

InCall(t) == pc[t] \notin {"idle", "done"}

\* The history after a step of thread t on key k: every other call on k
\* that has not been handed back has had a step of another call since it
\* began.
SnapAfter(t, k, own) ==
    [u \in Threads |->
        IF u = t THEN own
        ELSE IF key[u] = k THEN NoSnap
        ELSE snap[u]]

\* The history after thread t begins a call on key k.
OverlapAfter(t, k) ==
    IF audit /\ k \in Keys /\ \E u \in Threads \ {t} : InCall(u) /\ key[u] = k
    THEN [overlapped EXCEPT ![k] = TRUE]
    ELSE overlapped

\* The references threads hold after key k's entry is replaced by a new list.
ItemsAfterWrite(k) ==
    [u \in Threads |->
        IF key[u] = k /\ item[u] = EntryItem THEN OrphanItem ELSE item[u]]

\* A count that adds what accrued since the last replenishment.
TokenCountAccrued(k) ==
    IF buckets[Slot(k)].exists
    THEN Min(Capacity * Unit,
             buckets[Slot(k)].tokens + (Rate * (clock - buckets[Slot(k)].last)))
    ELSE 0

\* MemoryStorage.get_token_count's return value.
TokenCount(k) == IF buckets[Slot(k)].exists THEN buckets[Slot(k)].tokens ELSE 0

\* `self._storage.replenish(key, self._rate, self._capacity)`, as the
\* storage sees it.
ReplenishCall(k) ==
    [fn |-> "replenish", key |-> k, rate |-> args.rate.val,
     capacity |-> args.capacity.val]

\* `self._storage.consume(key, num_tokens)`, as the storage sees it.
ConsumeCall(k, n) == [fn |-> "consume", key |-> k, num_tokens |-> n.val]

TheArgs ==
    [rate |-> [kind |-> "int", val |-> Rate, nan |-> FALSE],
     capacity |-> [kind |-> "int", val |-> Capacity],
     storage |-> "MemoryStorage"]

\* Every thread idle.
Idle ==
    /\ pc = [t \in Threads |-> "idle"]
    /\ op = [t \in Threads |-> "none"]
    /\ key = [t \in Threads |-> NoKey]
    /\ num_tokens = [t \in Threads |-> NumNone]
    /\ tokens_in_bucket = [t \in Threads |-> 0]
    /\ last_replenished_at = [t \in Threads |-> 0]
    /\ now = [t \in Threads |-> 0]
    /\ item = [t \in Threads |-> NoItem]
    /\ loaded = [t \in Threads |-> 0]
    /\ ret = [t \in Threads |-> FALSE]
    /\ result = [t \in Threads |-> "none"]
    /\ count = [t \in Threads |-> 0]
    /\ snap = [t \in Threads |-> NoSnap]
    /\ calls = [t \in Threads |-> <<>>]

\* A constructed Limiter over an empty MemoryStorage, every thread idle.
Started ==
    /\ clock = 0
    /\ buckets = [k \in Keys |-> NoEntry]
    /\ Idle
    /\ granted = [k \in Keys |-> 0]
    /\ created = [k \in Keys |-> -1]
    /\ overlapped = [k \in Keys |-> FALSE]

Init ==
    /\ Started
    /\ audit = FALSE
    /\ seen = [t \in Threads |-> NotSeen]
    /\ args = TheArgs
    /\ limiter = LimiterInit(args.rate, args.capacity, args.storage)

\* ----------------------------------------------------------- call entries

\* A Limiter.consume that goes from the checks to storage.consume, with no
\* replenish before it.
LimiterConsumeUnreplenished(t, k, n) ==
    /\ limiter = "ok"
    /\ pc[t] = "idle"
    /\ op' = [op EXCEPT ![t] = "Limiter.consume"]
    /\ key' = [key EXCEPT ![t] = k]
    /\ num_tokens' = [num_tokens EXCEPT ![t] = n]
    /\ IF LimiterValidate(k, n) # "ok"
       THEN /\ pc' = [pc EXCEPT ![t] = "done"]
            /\ result' = [result EXCEPT ![t] = LimiterValidate(k, n)]
            /\ UNCHANGED <<snap, calls, overlapped>>
       ELSE /\ pc' = [pc EXCEPT ![t] = "c_read"]
            /\ calls' = [calls EXCEPT ![t] = <<ConsumeCall(k, n)>>]
            /\ snap' = SnapAfter(t, k, IF k \in Keys THEN SnapOf(k) ELSE NoSnap)
            /\ overlapped' = OverlapAfter(t, k)
            /\ UNCHANGED result
    /\ UNCHANGED <<clock, buckets, locals, ret, count, audit, seen, granted,
                   created, ctor>>

\* Limiter.consume(key, num_tokens): the checks, then storage.replenish.
LimiterConsume(t, k, n) ==
    /\ limiter = "ok"
    /\ pc[t] = "idle"
    /\ op' = [op EXCEPT ![t] = "Limiter.consume"]
    /\ key' = [key EXCEPT ![t] = k]
    /\ num_tokens' = [num_tokens EXCEPT ![t] = n]
    /\ IF LimiterValidate(k, n) # "ok"
       THEN /\ pc' = [pc EXCEPT ![t] = "done"]
            /\ result' = [result EXCEPT ![t] = LimiterValidate(k, n)]
            /\ UNCHANGED <<snap, calls, overlapped>>
       ELSE /\ pc' = [pc EXCEPT ![t] = "r_read"]
            /\ calls' = [calls EXCEPT ![t] = <<ReplenishCall(k)>>]
            /\ snap' = SnapAfter(t, k, IF k \in Keys THEN SnapOf(k) ELSE NoSnap)
            /\ overlapped' = OverlapAfter(t, k)
            /\ UNCHANGED result
    /\ UNCHANGED <<clock, buckets, locals, ret, count, audit, seen, granted,
                   created, ctor>>

\* storage.replenish(key, rate, capacity) called directly.
Replenish(t, k) ==
    /\ limiter = "ok"
    /\ pc[t] = "idle"
    /\ op' = [op EXCEPT ![t] = "replenish"]
    /\ pc' = [pc EXCEPT ![t] = "r_read"]
    /\ key' = [key EXCEPT ![t] = k]
    /\ snap' = SnapAfter(t, k, SnapOf(k))
    /\ overlapped' = OverlapAfter(t, k)
    /\ UNCHANGED <<clock, buckets, num_tokens, locals, ret, result, count,
                   calls, audit, seen, granted, created, ctor>>

\* storage.consume(key, num_tokens) called directly.
Consume(t, k, n) ==
    /\ limiter = "ok"
    /\ pc[t] = "idle"
    /\ op' = [op EXCEPT ![t] = "consume"]
    /\ pc' = [pc EXCEPT ![t] = "c_read"]
    /\ key' = [key EXCEPT ![t] = k]
    /\ num_tokens' = [num_tokens EXCEPT ![t] = NumInt(n)]
    /\ snap' = SnapAfter(t, k, SnapOf(k))
    /\ overlapped' = OverlapAfter(t, k)
    /\ UNCHANGED <<clock, buckets, locals, ret, result, count, calls, audit, seen,
                   granted, created, ctor>>

\* storage.get_token_count(key): one lookup.
GetTokenCount(t, k) ==
    /\ limiter = "ok"
    /\ pc[t] = "idle"
    /\ op' = [op EXCEPT ![t] = "get_token_count"]
    /\ pc' = [pc EXCEPT ![t] = "done"]
    /\ key' = [key EXCEPT ![t] = k]
    /\ count' = [count EXCEPT ![t] = TokenCount(k)]
    /\ result' = [result EXCEPT ![t] = "count"]
    /\ snap' = SnapAfter(t, k, SnapOf(k))
    /\ overlapped' = OverlapAfter(t, k)
    /\ UNCHANGED <<clock, buckets, num_tokens, locals, ret, calls, audit, seen,
                   granted, created, ctor>>

\* ------------------------------------------------ MemoryStorage.replenish

\* What follows replenish's return in thread t, the table being b by then
\* and c the clock value the call read: Limiter.consume calls
\* storage.consume, a direct caller has None.
AfterReplenish(t, b, c) ==
    /\ seen' = [seen EXCEPT ![t] =
            IF @.on
            THEN [on |-> TRUE, found |-> pc[t] # "r_new_write",
                  tokens |-> tokens_in_bucket[t],
                  last |-> last_replenished_at[t], now |-> c]
            ELSE @]
    /\ IF op[t] = "Limiter.consume"
       THEN /\ pc' = [pc EXCEPT ![t] = "c_read"]
            /\ calls' = [calls EXCEPT ![t] =
                   Append(calls[t], ConsumeCall(key[t], num_tokens[t]))]
            /\ snap' = SnapAfter(t, key[t],
                   [valid |-> TRUE, exists |-> b[key[t]].exists,
                    tokens |-> b[key[t]].tokens, last |-> b[key[t]].last])
            /\ now' = [now EXCEPT ![t] = 0]
            /\ UNCHANGED result
       ELSE /\ pc' = [pc EXCEPT ![t] = "done"]
            /\ result' = [result EXCEPT ![t] = "None"]
            /\ snap' = SnapAfter(t, key[t], snap[t])
            /\ now' = [now EXCEPT ![t] = c]
            /\ UNCHANGED calls

\* `tokens_in_bucket, last_replenished_at = self._buckets[key]`: an
\* unhashable key raises TypeError, a missing one KeyError (handled).
ReplenishRead(t) ==
    /\ pc[t] = "r_read"
    /\ IF key[t] \notin Keys
       THEN /\ pc' = [pc EXCEPT ![t] = "done"]
            /\ result' = [result EXCEPT ![t] = "TypeError"]
            /\ UNCHANGED <<tokens_in_bucket, last_replenished_at, snap>>
       ELSE /\ snap' = SnapAfter(t, key[t], snap[t])
            /\ UNCHANGED result
            /\ IF buckets[Slot(key[t])].exists
               THEN /\ tokens_in_bucket' =
                          [tokens_in_bucket EXCEPT ![t] = buckets[Slot(key[t])].tokens]
                    /\ last_replenished_at' =
                          [last_replenished_at EXCEPT ![t] = buckets[Slot(key[t])].last]
                    /\ pc' = [pc EXCEPT ![t] = "r_now"]
               ELSE /\ pc' = [pc EXCEPT ![t] = "r_new_now"]
                    /\ UNCHANGED <<tokens_in_bucket, last_replenished_at>>
    /\ UNCHANGED <<clock, buckets, op, key, num_tokens, now, item, loaded, ret,
                   count, calls, audit, seen, granted, created, overlapped, ctor>>

\* `now = time.monotonic()` and the guard `if now < last_replenished_at:
\* return`.
ReplenishNow(t) ==
    /\ pc[t] = "r_now"
    /\ IF Regressed(clock, last_replenished_at[t])
       THEN /\ AfterReplenish(t, buckets, clock)
            /\ tokens_in_bucket' = [tokens_in_bucket EXCEPT ![t] = 0]
            /\ last_replenished_at' = [last_replenished_at EXCEPT ![t] = 0]
       ELSE /\ now' = [now EXCEPT ![t] = clock]
            /\ pc' = [pc EXCEPT ![t] = "r_write"]
            /\ snap' = SnapAfter(t, key[t], snap[t])
            /\ UNCHANGED <<tokens_in_bucket, last_replenished_at, result,
                           calls, seen>>
    /\ UNCHANGED <<clock, buckets, op, key, num_tokens, item, loaded, ret,
                   count, audit, granted, created, overlapped, ctor>>

\* `self._buckets[key] = [min(capacity, ...), now]`: a new list takes the
\* entry's place, and replenish returns.
ReplenishWrite(t) ==
    /\ pc[t] = "r_write"
    /\ buckets' = [buckets EXCEPT ![Slot(key[t])] =
            [exists |-> TRUE,
             tokens |-> ReplenishedTokens(tokens_in_bucket[t],
                                          last_replenished_at[t], now[t],
                                          args.rate.val,
                                          args.capacity.val * Unit),
             last |-> now[t]]]
    /\ item' = ItemsAfterWrite(key[t])
    /\ AfterReplenish(t, buckets', now[t])
    /\ tokens_in_bucket' = [tokens_in_bucket EXCEPT ![t] = 0]
    /\ last_replenished_at' = [last_replenished_at EXCEPT ![t] = 0]
    /\ UNCHANGED <<clock, op, key, num_tokens, loaded, ret, count, audit,
                   granted, created, overlapped, ctor>>

\* except KeyError: the `time.monotonic()` of the new entry.
ReplenishNewNow(t) ==
    /\ pc[t] = "r_new_now"
    /\ now' = [now EXCEPT ![t] = clock]
    /\ pc' = [pc EXCEPT ![t] = "r_new_write"]
    /\ snap' = SnapAfter(t, key[t], snap[t])
    /\ UNCHANGED <<clock, buckets, op, key, num_tokens, tokens_in_bucket,
                   last_replenished_at, item, loaded, ret, result, count,
                   calls, audit, seen, granted, created, overlapped, ctor>>

\* except KeyError: `self._buckets[key] = [capacity, <that time>]`, and
\* replenish returns.
ReplenishNewWrite(t) ==
    /\ pc[t] = "r_new_write"
    /\ buckets' = [buckets EXCEPT ![Slot(key[t])] =
            [exists |-> TRUE,
             tokens |-> InitialTokens(args.capacity.val * Unit),
             last |-> now[t]]]
    /\ item' = ItemsAfterWrite(key[t])
    /\ created' = [created EXCEPT ![key[t]] =
            IF ~audit THEN @
            ELSE IF @ < 0 THEN now[t] ELSE Min(@, now[t])]
    /\ AfterReplenish(t, buckets', now[t])
    /\ UNCHANGED <<clock, op, key, num_tokens, tokens_in_bucket,
                   last_replenished_at, loaded, ret, count, audit, granted,
                   overlapped, ctor>>

\* -------------------------------------------------- MemoryStorage.consume

\* A Limiter.consume that reports every request as conforming.
LimiterResultTrue(r) == "True"

\* The value Limiter.consume returns: storage.consume's.
LimiterResult(r) == IF r THEN "True" ELSE "False"

\* storage.consume returns r in thread t, and with it the thread's call.
AfterConsume(t, r) ==
    /\ ret' = [ret EXCEPT ![t] = r]
    /\ pc' = [pc EXCEPT ![t] = "done"]
    /\ result' = [result EXCEPT ![t] = LimiterResult(r)]
    /\ granted' = [granted EXCEPT ![key[t]] =
            IF audit /\ r THEN Min(GrantedCap, @ + num_tokens[t].val) ELSE @]

\* `tokens_in_bucket = self._buckets[key][0]` (KeyError for a key with no
\* entry) and the test `if tokens_in_bucket < num_tokens: return False`.
ConsumeRead(t) ==
    /\ pc[t] = "c_read"
    /\ snap' = SnapAfter(t, key[t], snap[t])
    /\ IF ~buckets[Slot(key[t])].exists
       THEN /\ pc' = [pc EXCEPT ![t] = "done"]
            /\ result' = [result EXCEPT ![t] = "KeyError"]
            /\ UNCHANGED <<ret, granted>>
       ELSE IF NonConforming(buckets[Slot(key[t])].tokens, num_tokens[t].val * Unit)
            THEN AfterConsume(t, FALSE)
            ELSE /\ pc' = [pc EXCEPT ![t] = "c_load"]
                 /\ UNCHANGED <<ret, result, granted>>
    /\ UNCHANGED <<clock, buckets, op, key, num_tokens, locals, count, calls,
                   audit, seen, created, overlapped, ctor>>

\* A fetch that waits while another thread is between its fetch and its
\* store, as under a lock the storage does not have.
ConsumeLoadWaits(t) ==
    /\ pc[t] = "c_load"
    /\ \A u \in Threads \ {t} : pc[u] # "c_store"
    /\ item' = [item EXCEPT ![t] = EntryItem]
    /\ loaded' = [loaded EXCEPT ![t] = buckets[Slot(key[t])].tokens]
    /\ pc' = [pc EXCEPT ![t] = "c_store"]
    /\ snap' = SnapAfter(t, key[t], snap[t])
    /\ UNCHANGED <<clock, buckets, op, key, num_tokens, tokens_in_bucket,
                   last_replenished_at, now, ret, result, count, calls,
                   audit, seen, granted, created, overlapped, ctor>>

\* `self._buckets[key][0] -= num_tokens`, first half: fetch the list and
\* read its element 0.
ConsumeLoad(t) ==
    /\ pc[t] = "c_load"
    /\ item' = [item EXCEPT ![t] = EntryItem]
    /\ loaded' = [loaded EXCEPT ![t] = buckets[Slot(key[t])].tokens]
    /\ pc' = [pc EXCEPT ![t] = "c_store"]
    /\ snap' = SnapAfter(t, key[t], snap[t])
    /\ UNCHANGED <<clock, buckets, op, key, num_tokens, tokens_in_bucket,
                   last_replenished_at, now, ret, result, count, calls,
                   audit, seen, granted, created, overlapped, ctor>>

\* `self._buckets[key][0] -= num_tokens`, second half: store into that
\* list, which is the table's entry unless replenish replaced it meanwhile;
\* then `return True`.
ConsumeStore(t) ==
    /\ pc[t] = "c_store"
    /\ buckets' = [buckets EXCEPT ![Slot(key[t])].tokens =
            IF item[t] = EntryItem
            THEN Debited(loaded[t], num_tokens[t].val * Unit)
            ELSE @]
    /\ item' = [item EXCEPT ![t] = NoItem]
    /\ loaded' = [loaded EXCEPT ![t] = 0]
    /\ snap' = SnapAfter(t, key[t], snap[t])
    /\ AfterConsume(t, TRUE)
    /\ UNCHANGED <<clock, op, key, num_tokens, tokens_in_bucket,
                   last_replenished_at, now, count, calls, audit, seen, created,
                   overlapped, ctor>>

\* ------------------------------------------------------------ environment

\* The caller has its result; the thread is free for its next call.
Finish(t) ==
    /\ pc[t] = "done"
    /\ pc' = [pc EXCEPT ![t] = "idle"]
    /\ op' = [op EXCEPT ![t] = "none"]
    /\ key' = [key EXCEPT ![t] = NoKey]
    /\ num_tokens' = [num_tokens EXCEPT ![t] = NumNone]
    /\ now' = [now EXCEPT ![t] = 0]
    /\ ret' = [ret EXCEPT ![t] = FALSE]
    /\ result' = [result EXCEPT ![t] = "none"]
    /\ count' = [count EXCEPT ![t] = 0]
    /\ snap' = [snap EXCEPT ![t] = NoSnap]
    /\ calls' = [calls EXCEPT ![t] = <<>>]
    /\ seen' = [seen EXCEPT ![t] = IF @.on THEN Unseen ELSE @]
    /\ UNCHANGED <<clock, buckets, tokens_in_bucket, last_replenished_at,
                   item, loaded, audit, granted, created, overlapped, ctor>>

\* A clock that can be set back, as the wall clock can.
TickAdjusted ==
    /\ clock' \in (0 .. MaxClock) \ {clock}
    /\ UNCHANGED <<buckets, pc, op, key, num_tokens, locals, ret, result,
                   count, snap, calls, audit, seen, granted, created, overlapped,
                   ctor>>

\* The monotonic clock advances.
Tick ==
    /\ clock < MaxClock
    /\ clock' = clock + 1
    /\ UNCHANGED <<buckets, pc, op, key, num_tokens, locals, ret, result,
                   count, snap, calls, audit, seen, granted, created, overlapped,
                   ctor>>

\* A step inside a storage call, or the hand-back of a result.
Inner(t) ==
    \/ ReplenishRead(t)
    \/ ReplenishNow(t)
    \/ ReplenishWrite(t)
    \/ ReplenishNewNow(t)
    \/ ReplenishNewWrite(t)
    \/ ConsumeRead(t)
    \/ ConsumeLoad(t)
    \/ ConsumeStore(t)
    \/ Finish(t)

Next ==
    \/ Tick
    \/ \E t \in Threads :
        \/ \E k \in KeyArgs, n \in NumArgs : LimiterConsume(t, k, n)
        \/ \E k \in Keys : Replenish(t, k)
        \/ \E k \in Keys, n \in NumTokens : Consume(t, k, n)
        \/ \E k \in Keys : GetTokenCount(t, k)
        \/ Inner(t)

Spec == Init /\ [][Next]_vars

\* ---------------------------------------------------------------- workloads
\* Each specification below lets the callers issue some of the calls of
\* Next; its behaviours are behaviours of the same program.

TheKey == CHOOSE k \in Keys : TRUE

\* Callers of the storage itself, on one key.
NextStorage ==
    \/ Tick
    \/ \E t \in Pair :
        \/ Replenish(t, TheKey)
        \/ \E n \in NumTokens : Consume(t, TheKey, n)
        \/ GetTokenCount(t, TheKey)
        \/ Inner(t)

SpecStorage == Init /\ [][NextStorage]_vars

\* Callers of Limiter.consume with every kind of argument, on one bucket.
NextLimiter ==
    \/ Tick
    \/ \E t \in Pair :
        \/ \E k \in (KeyArgs \ Keys) \cup {TheKey}, n \in NumArgs :
              LimiterConsume(t, k, n)
        \/ Inner(t)

SpecLimiter == Init /\ [][NextLimiter]_vars

InitAudit ==
    /\ Started
    /\ audit = TRUE
    /\ seen = [t \in Threads |-> NotSeen]
    /\ args = TheArgs
    /\ limiter = LimiterInit(args.rate, args.capacity, args.storage)

\* Callers of Limiter.consume with valid arguments on one key, the grant
\* history kept.
NextEnvelope ==
    \/ Tick
    \/ \E t \in Pair :
        \/ \E n \in NumTokens : LimiterConsume(t, TheKey, NumInt(n))
        \/ Inner(t)

SpecEnvelope == InitAudit /\ [][NextEnvelope]_vars

\* Callers taking single tokens from several keys while the clock stands
\* still, the grant history kept.
NextKeys ==
    \E t \in Pair :
        \/ \E k \in Keys : LimiterConsume(t, k, NumInt(1))
        \/ \E k \in Keys : GetTokenCount(t, k)
        \/ Inner(t)

SpecKeys == InitAudit /\ [][NextKeys]_vars

\* A step inside a replenish, or the hand-back of a result.
InnerReplenish(t) ==
    \/ ReplenishRead(t)
    \/ ReplenishNow(t)
    \/ ReplenishWrite(t)
    \/ ReplenishNewNow(t)
    \/ ReplenishNewWrite(t)
    \/ Finish(t)

\* Three threads that replenish and read one key, and never consume.
NextReplenish ==
    \/ Tick
    \/ \E t \in Threads :
        \/ Replenish(t, TheKey)
        \/ GetTokenCount(t, TheKey)
        \/ InnerReplenish(t)

SpecReplenish == Init /\ [][NextReplenish]_vars

\* A bucket created at clock 0 from which g tokens were then granted, one
\* call after another, every thread idle again; the grant history kept.
InitDrained ==
    /\ clock = 0
    /\ Idle
    /\ \E g \in 0 .. Capacity :
          /\ buckets = [k \in Keys |->
                IF k = TheKey
                THEN [exists |-> TRUE, tokens |-> (Capacity - g) * Unit,
                      last |-> 0]
                ELSE NoEntry]
          /\ granted = [k \in Keys |-> IF k = TheKey THEN g ELSE 0]
    /\ created = [k \in Keys |-> IF k = TheKey THEN 0 ELSE -1]
    /\ overlapped = [k \in Keys |-> FALSE]
    /\ audit = TRUE
    /\ seen = [t \in Threads |-> NotSeen]
    /\ args = TheArgs
    /\ limiter = LimiterInit(args.rate, args.capacity, args.storage)

\* A step inside a replenish of a key that has its entry, or the hand-back
\* of a result.
InnerRefill(t) ==
    \/ ReplenishRead(t)
    \/ ReplenishNow(t)
    \/ ReplenishWrite(t)
    \/ Finish(t)

\* Three threads that replenish that bucket, and never consume.
NextRefill ==
    \/ Tick
    \/ \E t \in Threads :
        \/ Replenish(t, TheKey)
        \/ InnerRefill(t)

SpecRefill == InitDrained /\ [][NextRefill]_vars

\* The count below which the drift workload begins no further call.
DriftFloor == -(Capacity * Unit)

\* Three threads that take up to capacity tokens at a time from one key
\* and read its count, while the clock stands still.  The count can sink
\* without limit, so calls begin only while it is at DriftFloor or above.
NextDrift ==
    \E t \in Threads :
        \/ /\ TokenCount(TheKey) >= DriftFloor
           /\ \E n \in 1 .. Capacity : LimiterConsume(t, TheKey, NumInt(n))
        \/ GetTokenCount(t, TheKey)
        \/ Inner(t)

SpecDrift == Init /\ [][NextDrift]_vars

\* The clock value by which the emptiest bucket of InitHeal is full again.
HealClock == ((2 * Capacity * Unit) + (Rate - 1)) \div Rate

\* A bucket created at clock 0 from which g tokens were then granted while
\* the clock stood still, up to capacity more than it held if two calls
\* collided; every thread idle again, the grant history kept.
InitHeal ==
    /\ clock = 0
    /\ Idle
    /\ \E g \in 0 .. 2 * Capacity :
          /\ buckets = [k \in Keys |->
                IF k = TheKey
                THEN [exists |-> TRUE, tokens |-> (Capacity - g) * Unit,
                      last |-> 0]
                ELSE NoEntry]
          /\ granted = [k \in Keys |-> IF k = TheKey THEN g ELSE 0]
    /\ created = [k \in Keys |-> IF k = TheKey THEN 0 ELSE -1]
    /\ overlapped = [k \in Keys |-> FALSE]
    /\ audit = TRUE
    /\ seen = [t \in Threads |-> NotSeen]
    /\ args = TheArgs
    /\ limiter = LimiterInit(args.rate, args.capacity, args.storage)

\* The monotonic clock advances, as far as HealClock.
HealTick ==
    /\ clock < HealClock
    /\ clock' = clock + 1
    /\ UNCHANGED <<buckets, pc, op, key, num_tokens, locals, ret, result,
                   count, snap, calls, audit, seen, granted, created, overlapped,
                   ctor>>

\* Thread t replenishes the key, one call after another.
Refills(t) ==
    \/ Replenish(t, TheKey)
    \/ InnerRefill(t)

\* Two threads that replenish that bucket and never consume.  The clock
\* keeps advancing, and each thread keeps calling and is given the
\* processor in its turn.
NextHeal ==
    \/ HealTick
    \/ \E t \in Pair : Refills(t)

SpecHeal ==
    /\ InitHeal
    /\ [][NextHeal]_vars
    /\ WF_vars(HealTick)
    /\ \A t \in Pair : WF_vars(Refills(t))

\* The rounds of the burst workload: as many as the grant history counts
\* without reaching GrantedCap.
Rounds == (MaxClock \div Unit) + 1

\* The bucket drained at clock 0 by calls made one after another, the last
\* of them refused, and the clock then advanced by the time that generates
\* Rate tokens.
InitRounds ==
    /\ clock = Unit
    /\ Idle
    /\ buckets = [k \in Keys |->
          IF k = TheKey
          THEN [exists |-> TRUE, tokens |-> 0, last |-> 0]
          ELSE NoEntry]
    /\ granted = [k \in Keys |-> IF k = TheKey THEN Capacity ELSE 0]
    /\ created = [k \in Keys |-> IF k = TheKey THEN 0 ELSE -1]
    /\ overlapped = [k \in Keys |-> FALSE]
    /\ audit = TRUE
    /\ seen = [t \in Threads |-> NotSeen]
    /\ args = TheArgs
    /\ limiter = LimiterInit(args.rate, args.capacity, args.storage)

\* Every thread of the round has returned and been joined; the clock
\* advances by the time that generates Rate tokens, and the next round's
\* threads are ready.
NextRound ==
    /\ \A t \in Threads : pc[t] = "done"
    /\ clock < Rounds * Unit
    /\ clock' = clock + Unit
    /\ pc' = [t \in Threads |-> "idle"]
    /\ op' = [t \in Threads |-> "none"]
    /\ key' = [t \in Threads |-> NoKey]
    /\ num_tokens' = [t \in Threads |-> NumNone]
    /\ now' = [t \in Threads |-> 0]
    /\ ret' = [t \in Threads |-> FALSE]
    /\ result' = [t \in Threads |-> "none"]
    /\ count' = [t \in Threads |-> 0]
    /\ snap' = [t \in Threads |-> NoSnap]
    /\ calls' = [t \in Threads |-> <<>>]
    /\ UNCHANGED <<buckets, tokens_in_bucket, last_replenished_at, item,
                   loaded, audit, seen, granted, created, overlapped, ctor>>

\* A step inside a Limiter.consume on a key that has its entry.
InnerRound(t) ==
    \/ ReplenishRead(t)
    \/ ReplenishNow(t)
    \/ ReplenishWrite(t)
    \/ ConsumeRead(t)
    \/ ConsumeLoad(t)
    \/ ConsumeStore(t)

\* Rounds in which each of three threads calls Limiter.consume(key, 1)
\* once, however the calls interleave, the clock advancing between rounds
\* only.
NextRounds ==
    \/ NextRound
    \/ \E t \in Threads :
        \/ LimiterConsume(t, TheKey, NumInt(1))
        \/ InnerRound(t)

SpecRounds == InitRounds /\ [][NextRounds]_vars

\* The clock readings the progress workload goes through after the first.
ProgressClock == 1

\* Two threads that make every kind of call on one key, for one token at a
\* time, while the clock advances.  Each thread that has a step to take
\* takes one sooner or later: the interpreter hands the processor to every
\* runnable thread in turn.
NextProgress ==
    \/ (clock < ProgressClock /\ Tick)
    \/ \E t \in Pair :
        \/ LimiterConsume(t, TheKey, NumInt(1))
        \/ Replenish(t, TheKey)
        \/ Consume(t, TheKey, 1)
        \/ GetTokenCount(t, TheKey)
        \/ Inner(t)

SpecProgress ==
    Init /\ [][NextProgress]_vars /\ \A t \in Pair : WF_vars(Inner(t))

InitSerial ==
    /\ Started
    /\ audit = TRUE
    /\ seen = [t \in Threads |-> Unseen]
    /\ args = TheArgs
    /\ limiter = LimiterInit(args.rate, args.capacity, args.storage)

\* Callers of Limiter.consume on one key, each call begun only when no
\* other is under way; the grant history and what each replenish read are
\* kept.
NextSerial ==
    \/ Tick
    \/ \E t \in Pair :
        \/ /\ \A u \in Threads : ~InCall(u)
           /\ \E n \in NumTokens : LimiterConsume(t, TheKey, NumInt(n))
        \/ Inner(t)

SpecSerial == InitSerial /\ [][NextSerial]_vars

\* The capacity of the Limiter of the fractions workload, in whole tokens.
FractionCapacity == 2

\* The last clock reading of the fractions workload.
FractionClock == 5

\* Limiter(Rate, FractionCapacity, MemoryStorage()).
FractionArgs ==
    [rate |-> [kind |-> "int", val |-> Rate, nan |-> FALSE],
     capacity |-> [kind |-> "int", val |-> FractionCapacity],
     storage |-> "MemoryStorage"]

InitFractions ==
    /\ Started
    /\ audit = TRUE
    /\ seen = [t \in Threads |-> Unseen]
    /\ args = FractionArgs
    /\ limiter = LimiterInit(args.rate, args.capacity, args.storage)

\* The monotonic clock advances, as far as FractionClock.
FractionTick ==
    /\ clock < FractionClock
    /\ clock' = clock + 1
    /\ UNCHANGED <<buckets, pc, op, key, num_tokens, locals, ret, result,
                   count, snap, calls, audit, seen, granted, created, overlapped,
                   ctor>>

\* Callers of that Limiter's consume on one key, for up to its capacity,
\* each call begun only when no other is under way; what each replenish
\* read is kept.
NextFractions ==
    \/ FractionTick
    \/ \E t \in Pair :
        \/ /\ \A u \in Threads : ~InCall(u)
           /\ \E n \in 1 .. FractionCapacity :
                 LimiterConsume(t, TheKey, NumInt(n))
        \/ Inner(t)

SpecFractions == InitFractions /\ [][NextFractions]_vars

\* The rate of the Limiter of the float workload, in tokens per second.
FloatRate == 3

\* The clock readings of the float workload, in seconds: 0.0, 0.1, 0.2,
\* 0.3 and 0.4 as Python reads these literals; the clock variable counts
\* the readings gone by.
FloatReadings ==
    <<FloatZero,
      FloatFromHex(<<1, 9, 9, 9, 9, 9, 9, 9, 9, 9, 9, 9, 9, 10>>, -4),
      FloatFromHex(<<1, 9, 9, 9, 9, 9, 9, 9, 9, 9, 9, 9, 9, 10>>, -3),
      FloatFromHex(<<1, 3, 3, 3, 3, 3, 3, 3, 3, 3, 3, 3, 3, 3>>, -2),
      FloatFromHex(<<1, 9, 9, 9, 9, 9, 9, 9, 9, 9, 9, 9, 9, 10>>, -2)>>

\* Limiter(FloatRate, Capacity, MemoryStorage()).
FloatArgs ==
    [rate |-> [kind |-> "int", val |-> FloatRate, nan |-> FALSE],
     capacity |-> [kind |-> "int", val |-> Capacity],
     storage |-> "MemoryStorage"]

\* Every key's bucket created at the first clock reading, from which g
\* tokens were then granted, one call after another, before the clock
\* moved; token counts and timestamps are floats, every thread is idle,
\* and the grant history is kept.
InitFloat ==
    /\ clock = 0
    /\ Idle
    /\ granted \in [Keys -> 0 .. Capacity]
    /\ buckets = [k \in Keys |->
          [exists |-> TRUE, tokens |-> FloatOfInt(Capacity - granted[k]),
           last |-> FloatReadings[1]]]
    /\ created = [k \in Keys |-> 0]
    /\ overlapped = [k \in Keys |-> FALSE]
    /\ audit = TRUE
    /\ seen = [t \in Threads |-> NotSeen]
    /\ args = FloatArgs
    /\ limiter = LimiterInit(args.rate, args.capacity, args.storage)

\* The monotonic clock gives its next reading.
FloatTick ==
    /\ clock < Len(FloatReadings) - 1
    /\ clock' = clock + 1
    /\ UNCHANGED <<buckets, pc, op, key, num_tokens, locals, ret, result,
                   count, snap, calls, audit, seen, granted, created, overlapped,
                   ctor>>

\* storage.replenish(k, rate, capacity) from its call to its return, no
\* other call interleaved.
FloatReplenish(k) ==
    /\ limiter = "ok"
    /\ \A t \in Threads : pc[t] = "idle"
    /\ buckets' = [buckets EXCEPT ![Slot(k)] =
            FloatReplenished(@, FloatReadings[clock + 1],
                             args.rate.val, args.capacity.val)]
    /\ UNCHANGED <<clock, pc, op, key, num_tokens, locals, ret, result,
                   count, snap, calls, audit, seen, granted, created, overlapped,
                   ctor>>

\* Callers that replenish the keys, one call after another, and never
\* consume, while the clock advances.
NextFloat ==
    \/ FloatTick
    \/ \E k \in Keys : FloatReplenish(k)

SpecFloat == InitFloat /\ [][NextFloat]_vars

\* The construction of a Limiter from every kind of argument.
InitCtor ==
    /\ Started
    /\ audit = FALSE
    /\ seen = [t \in Threads |-> NotSeen]
    /\ args \in [rate : RateArgs, capacity : CapacityArgs, storage : StorageArgs]
    /\ limiter = "none"

Construct ==
    /\ limiter = "none"
    /\ limiter' = LimiterInit(args.rate, args.capacity, args.storage)
    /\ UNCHANGED <<clock, buckets, pc, op, key, num_tokens, locals, ret,
                   result, count, snap, calls, audit, seen, granted, created,
                   overlapped, args>>

SpecCtor == InitCtor /\ [][Construct]_vars

\* ------------------------------------------------------------------ claims

\* The entry of key k, as get_token_count and the next call would find it.
Entry(k) == [tokens |-> buckets[k].tokens, last |-> buckets[k].last]

\* Thread t has a storage.consume behind it that no step of another call
\* on its key came inside of, and that found the bucket in place.
CleanConsume(t) ==
    /\ pc[t] = "done"
    /\ op[t] \in {"consume", "Limiter.consume"}
    /\ result[t] \in {"True", "False"}
    /\ snap[t].valid
    /\ snap[t].exists

\* C1: all-or-nothing debit.  A consume(key, n) that no other call on the
\* key interleaves with either finds tokens < n, returns False and leaves
\* (tokens, last_replenished_at) as they were, or returns True, lowers
\* tokens by exactly n and leaves last_replenished_at as it was.
C1_AllOrNothing ==
    \A t \in Threads :
        CleanConsume(t) =>
            IF snap[t].tokens < num_tokens[t].val * Unit
            THEN /\ result[t] = "False"
                 /\ Entry(key[t]) = [tokens |-> snap[t].tokens,
                                     last |-> snap[t].last]
            ELSE /\ result[t] = "True"
                 /\ Entry(key[t]) =
                        [tokens |-> snap[t].tokens - (num_tokens[t].val * Unit),
                         last |-> snap[t].last]

\* Both outcomes at once: one thread was refused, the other was granted
\* its tokens after the clock moved.
C1_Witness ==
    \E t, u \in Threads :
        /\ pc[t] = "done" /\ op[t] = "consume" /\ result[t] = "False"
        /\ CleanConsume(u) /\ op[u] = "consume" /\ result[u] = "True"
        /\ buckets[key[u]].tokens = snap[u].tokens - (num_tokens[u].val * Unit)
        /\ buckets[key[u]].last > 0

\* C2: capacity bound.  Whatever the interleaving of replenish and consume
\* calls, no bucket holds more than capacity tokens.
C2_CapacityBound ==
    \A k \in Keys : buckets[k].exists => buckets[k].tokens <= Capacity * Unit

\* A replenish whose accrual overshot the capacity has just been capped.
C2_Witness ==
    \E t \in Threads :
        /\ pc[t] = "done" /\ op[t] = "replenish"
        /\ snap[t].valid /\ snap[t].exists
        /\ snap[t].tokens + (Rate * (now[t] - snap[t].last)) > Capacity * Unit
        /\ buckets[key[t]].tokens = Capacity * Unit

\* What a key's bucket can have generated by now: its initial capacity and
\* rate * (time since its creation), in 1/Unit tokens.
Envelope(k) == (Capacity * Unit) + (Rate * (clock - created[k]))

\* C3 as claimed: under any interleaving of Limiter.consume calls, the
\* tokens granted on a key never exceed capacity + rate * (time since the
\* bucket was created).
C3_Envelope ==
    \A k \in Keys : created[k] >= 0 => granted[k] * Unit <= Envelope(k)

\* C3, amended: as long as no two calls on the key have overlapped, the
\* tokens granted on it never exceed capacity + rate * (time since the
\* bucket was created).
C3_SerialEnvelope ==
    \A k \in Keys :
        (created[k] >= 0 /\ ~overlapped[k]) => granted[k] * Unit <= Envelope(k)

\* Serial callers have used up the capacity and all that was generated
\* after it.
C3_Witness ==
    \E k \in Keys :
        /\ created[k] >= 0
        /\ ~overlapped[k]
        /\ granted[k] > Capacity
        /\ granted[k] * Unit = Envelope(k)

\* C4: a request for more than capacity never conforms.  Limiter.consume
\* (key, n) with n > capacity never gets to the debit; it returns False,
\* the bucket exists by then, and unless another call came in between, the
\* bucket is as storage.consume found it.
C4_OverCapacityRefused ==
    \A t \in Threads :
        (/\ op[t] = "Limiter.consume"
         /\ key[t] \in Keys
         /\ num_tokens[t].kind = "int"
         /\ num_tokens[t].val > Capacity)
        => /\ pc[t] \notin {"c_load", "c_store"}
           /\ pc[t] = "done" =>
                /\ result[t] = "False"
                /\ buckets[key[t]].exists
                /\ snap[t].valid =>
                      Entry(key[t]) = [tokens |-> snap[t].tokens,
                                       last |-> snap[t].last]

\* The first call on a key asked for more than capacity: it was refused,
\* and the bucket it created is full.
C4_Witness ==
    \E t \in Threads :
        /\ pc[t] = "done"
        /\ op[t] = "Limiter.consume"
        /\ key[t] \in Keys
        /\ num_tokens[t].val > Capacity
        /\ result[t] = "False"
        /\ snap[t].valid
        /\ buckets[key[t]] = [exists |-> TRUE, tokens |-> Capacity * Unit,
                              last |-> 0]
        /\ \A u \in Threads \ {t} : pc[u] = "idle"

\* C5: lazy creation.  get_token_count of a key without an entry returns
\* 0 and creates none; a replenish that finds no entry (and no other call
\* in its way) leaves one holding capacity tokens, stamped with the clock
\* value it read, so that get_token_count is capacity.
C5_LazyCreation ==
    \A t \in Threads :
        (pc[t] = "done" /\ snap[t].valid /\ ~snap[t].exists) =>
            /\ op[t] = "get_token_count" =>
                  (count[t] = 0 /\ ~buckets[key[t]].exists)
            /\ op[t] = "replenish" =>
                  /\ buckets[key[t]] = [exists |-> TRUE,
                                        tokens |-> Capacity * Unit,
                                        last |-> now[t]]
                  /\ now[t] <= clock
                  /\ TokenCount(key[t]) = Capacity * Unit

\* One thread was told 0 for the key; then the other created the bucket,
\* after the clock had moved.
C5_Witness ==
    \E t, u \in Threads :
        /\ pc[t] = "done" /\ op[t] = "get_token_count" /\ count[t] = 0
        /\ pc[u] = "done" /\ op[u] = "replenish"
        /\ snap[u].valid /\ ~snap[u].exists
        /\ key[u] = key[t]
        /\ buckets[key[u]].last > 0
        /\ TokenCount(key[u]) = Capacity * Unit

\* C6: the replenishment formula.  A replenish that finds the bucket at
\* (t0, t1), reads the clock at t2 >= t1 and has no other call on the key
\* in its way leaves the bucket at (min(capacity, t0 + rate * (t2 - t1)), t2).
C6_ReplenishFormula ==
    \A t \in Threads :
        (/\ pc[t] = "done"
         /\ op[t] = "replenish"
         /\ snap[t].valid
         /\ snap[t].exists
         /\ now[t] >= snap[t].last)
        => Entry(key[t]) =
              [tokens |-> Min(Capacity * Unit,
                              snap[t].tokens + (Rate * (now[t] - snap[t].last))),
               last |-> now[t]]

\* A replenish has added to a bucket that was neither empty nor full, and
\* did not fill it.
C6_Witness ==
    \E t \in Threads :
        /\ pc[t] = "done"
        /\ op[t] = "replenish"
        /\ snap[t].valid
        /\ snap[t].exists
        /\ now[t] > snap[t].last
        /\ buckets[key[t]].tokens > snap[t].tokens
        /\ buckets[key[t]].tokens < Capacity * Unit

\* C7, first half: a step changes the entry of a key only if it is a step
\* of a replenish or consume on that very key; every other key's entry,
\* and what get_token_count says of it, stay as they were.
C7_Frame ==
    \A k \in Keys :
        (buckets'[k] # buckets[k]) =>
            \E t \in Threads :
                /\ pc'[t] # pc[t]
                /\ key[t] = k
                /\ op[t] \in {"replenish", "consume", "Limiter.consume"}

\* C7, second half, with the clock standing still: a key whose calls have
\* not overlapped holds capacity less what it granted, whatever the other
\* keys went through, and a single-token consume on it is refused only
\* once it has granted exactly capacity.
C7_OwnBudget ==
    \A k \in Keys :
        ~overlapped[k] =>
            /\ granted[k] <= Capacity
            /\ buckets[k].exists =>
                  buckets[k].tokens = (Capacity - granted[k]) * Unit
            /\ \A t \in Threads :
                  (/\ pc[t] = "done"
                   /\ op[t] = "Limiter.consume"
                   /\ key[t] = k
                   /\ result[t] = "False") => granted[k] = Capacity

\* C7: key independence.  Every step leaves the entries of the keys it is
\* not about unchanged, and each key gets exactly capacity conforming
\* single-token consumes before its first non-conforming one.
C7_KeyIndependence == [][C7_Frame /\ C7_OwnBudget']_vars

\* Two keys, each exhausted by serial callers and each refused only after
\* capacity grants of its own.
C7_Witness ==
    /\ \A k \in Keys : ~overlapped[k] /\ granted[k] = Capacity
    /\ \E t, u \in Threads :
          /\ key[t] # key[u]
          /\ pc[t] = "done" /\ result[t] = "False"
          /\ pc[u] = "done" /\ result[u] = "False"

\* C8: Limiter.consume orchestration.  A call that passed validation has
\* issued replenish(key, rate, capacity), with the constructed rate and
\* capacity, and nothing else while replenish runs; it has issued
\* consume(key, num_tokens) after it, once, while consume runs; it returns
\* what that consume returned; and if replenish raised, the error is the
\* call's result and consume was not called.
C8_Orchestration ==
    \A t \in Threads :
        (op[t] = "Limiter.consume" /\ calls[t] # <<>>) =>
            LET r == [fn |-> "replenish", key |-> key[t], rate |-> Rate,
                      capacity |-> Capacity]
                c == [fn |-> "consume", key |-> key[t],
                      num_tokens |-> num_tokens[t].val]
            IN  /\ pc[t] \in {"r_read", "r_now", "r_write", "r_new_now",
                              "r_new_write"} => calls[t] = <<r>>
                /\ pc[t] \in {"c_read", "c_load", "c_store"} =>
                      calls[t] = <<r, c>>
                /\ pc[t] = "done" =>
                      \/ /\ calls[t] = <<r, c>>
                         /\ result[t] = (IF ret[t] THEN "True" ELSE "False")
                      \/ /\ calls[t] = <<r>>
                         /\ key[t] \notin Keys
                         /\ result[t] = "TypeError"

\* A call has returned False after its two storage calls, and another has
\* ended with replenish's TypeError for a key that cannot be hashed.
C8_Witness ==
    \E t, u \in Threads :
        /\ pc[t] = "done" /\ op[t] = "Limiter.consume"
        /\ Len(calls[t]) = 2 /\ result[t] = "False"
        /\ pc[u] = "done" /\ op[u] = "Limiter.consume"
        /\ Len(calls[u]) = 1 /\ result[u] = "TypeError"

\* What the claim has Limiter(rate, capacity, storage) accept.
C9_Valid(a) ==
    /\ a.rate.kind \in {"int", "float"}
    /\ ~a.rate.nan /\ a.rate.val > 0
    /\ a.capacity.kind = "int"
    /\ a.capacity.val >= 1
    /\ a.storage = "MemoryStorage"

\* C9: constructor validation.  Limiter(rate, capacity, storage) succeeds
\* if and only if rate is an int or float above 0, capacity an int of at
\* least 1 and storage a StorageBase; a TypeError names an argument of the
\* wrong kind, a ValueError one that is out of range.
C9_ConstructorValidation ==
    limiter # "none" =>
        /\ limiter = "ok" <=> C9_Valid(args)
        /\ limiter = "TypeError" =>
              \/ args.rate.kind \notin {"int", "float"}
              \/ args.capacity.kind # "int"
              \/ args.storage # "MemoryStorage"
        /\ limiter = "ValueError" =>
              \/ args.rate.kind \in {"int", "float"} /\ RateLeZero(args.rate)
              \/ args.capacity.kind = "int" /\ args.capacity.val < 1

\* What Limiter.consume(k, n) may raise according to the claim.
C10_Violations(k, n) ==
    (IF k = KeyNone \/ n.kind = "None" THEN {"TypeError"} ELSE {})
    \cup (IF k = KeyEmpty \/ (n.kind = "int" /\ n.val < 1)
          THEN {"ValueError"} ELSE {})

\* C10: call-site validation.  Limiter.consume(key, num_tokens) with a
\* None or empty key, or a None or < 1 num_tokens, ends at once with an
\* error of a kind matching one of the violations and without a storage
\* call; the storage is reached only with a non-empty key and
\* num_tokens >= 1.
C10_CallSiteValidation ==
    \A t \in Threads :
        op[t] = "Limiter.consume" =>
            /\ C10_Violations(key[t], num_tokens[t]) # {} =>
                  /\ pc[t] = "done"
                  /\ result[t] \in C10_Violations(key[t], num_tokens[t])
                  /\ calls[t] = <<>>
            /\ (calls[t] # <<>> \/ pc[t] # "done") =>
                  /\ key[t] \notin {KeyNone, KeyEmpty}
                  /\ num_tokens[t].kind = "int"
                  /\ num_tokens[t].val >= 1

\* Both arguments were invalid in different ways, and the error is the
\* key's; another call, with good arguments, is in the storage.
C10_Witness ==
    \E t, u \in Threads :
        /\ pc[t] = "done" /\ op[t] = "Limiter.consume"
        /\ key[t] = KeyEmpty /\ num_tokens[t].kind = "None"
        /\ result[t] = "ValueError"
        /\ op[u] = "Limiter.consume" /\ pc[u] = "c_store"

\* Thread u makes its get_token_count call in this step.
C11_Get(u) ==
    pc[u] = "idle" /\ pc'[u] = "done" /\ op'[u] = "get_token_count"

\* C11: get_token_count is read-only.  The call leaves every entry of the
\* table as it was, creating none and replenishing none, and it returns
\* what an earlier get_token_count of the key returned if no step of a
\* replenish or consume on the key came between the two, however far the
\* clock has moved.
C11_ReadOnly ==
    [][\A u \in Threads :
          C11_Get(u) =>
              /\ buckets' = buckets
              /\ \A t \in Threads \ {u} :
                    (/\ pc[t] = "done"
                     /\ op[t] = "get_token_count"
                     /\ key[t] = key'[u]
                     /\ snap[t].valid) => count'[u] = count[t]]_vars

\* Two reads of a bucket that is neither new nor full returned the same
\* count, although time has passed since its last replenishment.
C11_Witness ==
    \E t, u \in Threads :
        /\ t # u
        /\ pc[t] = "done" /\ op[t] = "get_token_count"
        /\ pc[u] = "done" /\ op[u] = "get_token_count"
        /\ key[t] = key[u]
        /\ buckets[key[t]].exists
        /\ buckets[key[t]].tokens < Capacity * Unit
        /\ buckets[key[t]].last < clock
        /\ count[t] = buckets[key[t]].tokens
        /\ count[u] = count[t]

\* C12: burst, refusal, recovery, for calls that follow one another.  While
\* the clock stands where the bucket was created, the bucket holds capacity
\* less what it granted, it grants no more than capacity, and it refuses n
\* tokens only when fewer than n of the capacity are left (so 1 token only
\* after exactly capacity were granted); and a Limiter.consume(key, 1)
\* whose replenish reads the clock at least 1/rate after the bucket's last
\* replenishment returns True.
C12_BurstRefusalRecovery ==
    /\ \A k \in Keys :
          (created[k] >= 0 /\ clock = created[k]) =>
              /\ granted[k] <= Capacity
              /\ buckets[k].tokens = (Capacity - granted[k]) * Unit
    /\ \A t \in Threads :
          (pc[t] = "done" /\ op[t] = "Limiter.consume") =>
              /\ (clock = created[key[t]] /\ result[t] = "False") =>
                    granted[key[t]] + num_tokens[t].val > Capacity
              /\ (/\ num_tokens[t].val = 1
                  /\ seen[t].found
                  /\ Rate * (seen[t].now - seen[t].last) >= Unit)
                 => result[t] = "True"

\* The capacity was granted and the next token refused; then, 1/rate or
\* more after that refusal, a token was granted from the emptied bucket.
C12_Witness ==
    \E t, u \in Threads :
        /\ pc[u] = "done" /\ op[u] = "Limiter.consume"
        /\ num_tokens[u].val = 1 /\ result[u] = "False"
        /\ pc[t] = "done" /\ op[t] = "Limiter.consume"
        /\ num_tokens[t].val = 1 /\ result[t] = "True"
        /\ seen[t].found
        /\ seen[t].tokens = 0
        /\ seen[t].last = created[key[t]]
        /\ Rate * (seen[t].now - seen[t].last) >= Unit
        /\ granted[key[t]] = Capacity + 1

\* C13: sustained conformance, for calls that follow one another.  A
\* Limiter.consume(key, n) with n <= capacity whose replenish finds t
\* tokens, last replenished at t1, and reads the clock at t2 with
\* t + rate * (t2 - t1) >= n returns True; t is never negative, so a caller
\* that lets n/rate pass between its calls of size n is granted every one.
C13_SustainedConformance ==
    \A t \in Threads :
        (/\ pc[t] = "done"
         /\ op[t] = "Limiter.consume"
         /\ num_tokens[t].val <= Capacity
         /\ seen[t].found)
        => /\ seen[t].tokens >= 0
           /\ seen[t].tokens + (Rate * (seen[t].now - seen[t].last))
                 >= num_tokens[t].val * Unit => result[t] = "True"
           /\ Rate * (seen[t].now - seen[t].last) >= num_tokens[t].val * Unit
                 => result[t] = "True"

\* A call was granted for which neither what the bucket held nor what
\* accrued since would have been enough alone.
C13_Witness ==
    \E t \in Threads :
        /\ pc[t] = "done"
        /\ op[t] = "Limiter.consume"
        /\ result[t] = "True"
        /\ seen[t].found
        /\ seen[t].tokens > 0
        /\ seen[t].tokens < num_tokens[t].val * Unit
        /\ Rate * (seen[t].now - seen[t].last) < num_tokens[t].val * Unit

\* C14: concurrent replenishment keeps a full bucket full.  With replenish
\* and get_token_count calls only, however they interleave with each other
\* and with the clock, an existing bucket holds exactly capacity, and that
\* is what get_token_count returns for it.
C14_FullStaysFull ==
    /\ \A k \in Keys : buckets[k].exists => TokenCount(k) = Capacity * Unit
    /\ \A t \in Threads :
          (pc[t] = "done" /\ op[t] = "get_token_count") =>
              /\ count[t] \in {0, Capacity * Unit}
              /\ (snap[t].valid /\ snap[t].exists) => count[t] = Capacity * Unit

\* A replenish that had read the clock earlier wrote after one that read it
\* later, and a reader still found the bucket full.
C14_Witness ==
    \E t, u \in Threads :
        /\ pc[t] = "done" /\ op[t] = "replenish"
        /\ buckets[key[t]].exists
        /\ buckets[key[t]].last < now[t]
        /\ pc[u] = "done" /\ op[u] = "get_token_count"
        /\ count[u] = Capacity * Unit
        /\ TokenCount(key[t]) = Capacity * Unit

\* C15: bounded negative drift.  With requests of at most m = capacity
\* tokens, every count get_token_count returns is greater than -2 * m.
C15_DriftAboveTwice ==
    \A t \in Threads :
        (pc[t] = "done" /\ op[t] = "get_token_count") =>
            count[t] > -2 * (Capacity * Unit)

\* C16: timestamp monotonicity.  From one state to the next, the
\* last_replenished_at stored for a key never decreases.
C16_TimestampMonotonic ==
    [][\A k \in Keys :
          buckets[k].exists => buckets'[k].last >= buckets[k].last]_vars

C18_Created(k, c) ==
    [exists |-> TRUE, tokens |-> Capacity * Unit, last |-> c]

\* Thread t takes a step of the call it is in.
C18_Steps(t) == InCall(t) /\ pc'[t] # pc[t]

\* C18: no eviction.  An entry of the table is in the table after every
\* step; an entry appears only in the step of a replenish that found none;
\* and an existing bucket is never beyond the calls' reach: a thread that
\* is free can begin a replenish or a consume on it, the replenish reads
\* it and stores over it unless the clock reads earlier than what it read,
\* and the consume finds it.
C18_NoEviction ==
    [][/\ \A k \in Keys :
            /\ buckets[k].exists => buckets'[k].exists
            /\ (~buckets[k].exists /\ buckets'[k].exists) =>
                  \E t \in Threads :
                      /\ op[t] \in {"replenish", "Limiter.consume"}
                      /\ pc[t] = "r_new_write"
                      /\ key[t] = k
                      /\ C18_Steps(t)
                      /\ buckets'[k] = C18_Created(k, now[t])
       /\ \A t \in Pair :
            /\ (pc[t] = "idle" /\ buckets[TheKey].exists) =>
                  /\ ENABLED Replenish(t, TheKey)
                  /\ ENABLED Consume(t, TheKey, 1)
            /\ (C18_Steps(t) /\ key[t] \in Keys /\ buckets[key[t]].exists) =>
                  /\ pc[t] = "r_read" => pc'[t] = "r_now"
                  /\ (pc[t] = "r_now" /\ clock >= last_replenished_at[t]) =>
                        pc'[t] = "r_write"
                  /\ pc[t] = "r_write" =>
                        /\ buckets'[key[t]].exists
                        /\ buckets'[key[t]].last = now[t]
                  /\ pc[t] = "c_read" =>
                        /\ result'[t] # "KeyError"
                        /\ pc'[t] = "c_load"
                              <=> buckets[key[t]].tokens
                                      >= num_tokens[t].val * Unit]_vars

\* A bucket that a consume has taken from and a replenish has since stored
\* over is still in the table, and a read of it has returned.
C18_Witness ==
    \E t, u \in Threads :
        /\ t # u
        /\ pc[t] = "done" /\ op[t] = "replenish" /\ result[t] = "None"
        /\ pc[u] = "done" /\ op[u] = "get_token_count"
        /\ key[t] = key[u]
        /\ buckets[key[t]].exists
        /\ buckets[key[t]].last = now[t]
        /\ buckets[key[t]].tokens < Capacity * Unit
        /\ count[u] = buckets[key[t]].tokens

\* The most steps a call at p still takes before it has returned.
C19_Rank(p) ==
    CASE p = "r_read" -> 6
      [] p \in {"r_now", "r_new_now"} -> 5
      [] p \in {"r_write", "r_new_write"} -> 4
      [] p = "c_read" -> 3
      [] p = "c_load" -> 2
      [] p = "c_store" -> 1
      [] OTHER -> 0

\* C19: non-blocking progress.  A thread inside a call always has a step
\* it can take, whatever the other threads are doing; each of its steps
\* brings the call nearer its return, which is at most six steps away once
\* the call has begun; and every call that has begun returns.
C19_NonBlockingProgress ==
    /\ [](\A t \in Pair : InCall(t) => ENABLED Inner(t))
    /\ [][\A t \in Pair :
            /\ (InCall(t) /\ pc'[t] # pc[t]) =>
                  C19_Rank(pc'[t]) < C19_Rank(pc[t])
            /\ (pc[t] = "idle" /\ pc'[t] # "idle") =>
                  C19_Rank(pc'[t]) <= 6]_vars
    /\ \A t \in Pair : InCall(t) ~> (pc[t] = "done")

\* A call has returned while the other thread stood between the two halves
\* of its debit.
C19_Witness ==
    \E t, u \in Pair :
        /\ t # u
        /\ pc[t] = "done" /\ op[t] = "Limiter.consume" /\ result[t] = "True"
        /\ snap[t].valid = FALSE
        /\ pc[u] = "c_store"

\* C20: no generated token is lost to a race.  From a drained bucket,
\* when the threads of a round have all returned, the calls granted since
\* the drain are at least the tokens generated since it, Rate in each
\* round so far, however the calls of each round interleaved.  (The grant
\* history counts the Capacity tokens of the drain too, and no further
\* than GrantedCap.)
C20_NoGeneratedTokenLost ==
    (\A t \in Threads : pc[t] = "done") =>
        granted[TheKey] >=
            Min(GrantedCap, Capacity + (Rate * (clock \div Unit)))

\* The second round has ended with every call of it refused: two calls of
\* the first round had both passed the test on the one token there was and
\* left the bucket a token short, which the second round's token made up.
C20_Witness ==
    /\ \A t \in Threads : pc[t] = "done" /\ result[t] = "False"
    /\ clock = 2 * Unit
    /\ granted[TheKey] - Capacity = Rate * (clock \div Unit)
    /\ buckets[TheKey].tokens < Unit

\* C21: the check-then-act race.  Nothing stands between consume's test
\* and its debit: a call that has passed the test returns True and stores
\* the count it fetched less its request, also when that count no longer
\* covers the request; and a count below zero is found only on a key on
\* which two calls have overlapped.  (That such an interleaving exists is
\* what C21_Witness shows.)
C21_CheckThenAct ==
    /\ [](\A k \in Keys :
            (buckets[k].exists /\ buckets[k].tokens < 0) => overlapped[k])
    /\ [][\A t \in Threads :
            (pc[t] = "c_store" /\ pc'[t] = "done") =>
                /\ result'[t] = "True"
                /\ item[t] = EntryItem =>
                      buckets'[key[t]].tokens =
                          loaded[t] - (num_tokens[t].val * Unit)]_vars

\* Two Limiter.consume calls on one key have both returned True, each for
\* all a full bucket holds, and the count stored is below zero: both had
\* passed the test on the full bucket before either had debited it.
C21_Witness ==
    \E t, u \in Threads :
        /\ t # u
        /\ pc[t] = "done" /\ op[t] = "Limiter.consume" /\ result[t] = "True"
        /\ pc[u] = "done" /\ op[u] = "Limiter.consume" /\ result[u] = "True"
        /\ key[t] = key[u]
        /\ num_tokens[t].val = Capacity /\ num_tokens[u].val = Capacity
        /\ buckets[key[t]].tokens = -(Capacity * Unit)
        /\ granted[key[t]] = 2 * Capacity

\* C22: self-healing.  With no consume, the clock advancing and replenish
\* called again and again, the count of a bucket, be it below zero or left
\* short by an out-of-order write, is capacity from some time on for good;
\* and a replenish with which no other call is interleaved, made when the
\* clock reads last_replenished_at + (capacity - tokens) / rate or later,
\* stores capacity.
C22_SelfHealing ==
    /\ <>[](buckets[TheKey].exists
               /\ buckets[TheKey].tokens = Capacity * Unit)
    /\ [][\A t \in Threads :
            (/\ pc[t] = "r_write" /\ pc'[t] # pc[t]
             /\ snap[t].valid
             /\ Rate * (now[t] - snap[t].last)
                   >= (Capacity * Unit) - snap[t].tokens) =>
                buckets'[key[t]].tokens = Capacity * Unit]_vars

\* A bucket that began capacity below zero is full, and the replenish that
\* filled it has returned while the other thread's stands before its write.
C22_Witness ==
    \E t, u \in Pair :
        /\ t # u
        /\ granted[TheKey] = 2 * Capacity
        /\ buckets[TheKey].tokens = Capacity * Unit
        /\ pc[t] = "done" /\ op[t] = "replenish"
        /\ buckets[TheKey].last = now[t]
        /\ pc[u] = "r_write"
        /\ tokens_in_bucket[u] < 0

\* Thread t begins a Limiter.consume in this step with a None or empty
\* key, or with a None or < 1 num_tokens.
C23_Rejected(t) ==
    /\ pc[t] = "idle"
    /\ op'[t] = "Limiter.consume"
    /\ \/ key'[t] \in {KeyNone, KeyEmpty}
       \/ num_tokens'[t].kind = "None"
       \/ num_tokens'[t].val < 1

\* C23: state unchanged on rejected input.  A Limiter.consume that fails
\* validation has raised in the step it began in, with the table exactly
\* as it was: no entry created, replenished or debited, no storage call
\* made, no local of a storage call touched.
C23_RejectedLeavesTable ==
    [][\A t \in Threads :
          C23_Rejected(t) =>
              /\ buckets' = buckets
              /\ pc'[t] = "done"
              /\ result'[t] \in {"TypeError", "ValueError"}
              /\ calls'[t] = <<>>
              /\ UNCHANGED locals]_vars

\* A call for the bucket's key with num_tokens 0 has raised, and the
\* bucket, less than full and last replenished before now, is as a
\* replenish would not have left it.
C23_Witness ==
    \E t \in Threads :
        /\ pc[t] = "done" /\ op[t] = "Limiter.consume"
        /\ key[t] = TheKey
        /\ num_tokens[t] = NumInt(0)
        /\ result[t] = "ValueError"
        /\ calls[t] = <<>>
        /\ buckets[TheKey].exists
        /\ buckets[TheKey].tokens < Capacity * Unit
        /\ buckets[TheKey].last < clock

\* C24: the range of the count, for calls that follow one another.  When
\* no Limiter.consume is interleaved with another, every bucket holds at
\* least 0 and at most capacity after every call (and at every step of
\* one), whatever the requests and however the clock advances between
\* them.
C24_SequentialRange ==
    \A k \in Keys :
        buckets[k].exists =>
            /\ buckets[k].tokens >= 0
            /\ buckets[k].tokens <= Capacity * Unit

\* A call has taken the last of a bucket that had been emptied and, some
\* time later, replenished in part: the count is 0 again, the bucket
\* having granted more than its capacity.
C24_Witness ==
    /\ \A u \in Threads : ~InCall(u)
    /\ \E t \in Threads :
          /\ pc[t] = "done" /\ op[t] = "Limiter.consume"
          /\ result[t] = "True"
          /\ seen[t].found
          /\ seen[t].tokens < num_tokens[t].val * Unit
          /\ buckets[key[t]].tokens = 0
          /\ granted[key[t]] > Capacity

\* C25: replenish before consume suffices.  However Limiter.consume calls
\* on any keys interleave, the storage.consume of such a call finds an
\* entry under its key, at its lookup and at each later step, and no
\* Limiter.consume ends with the KeyError of a missing key.
C25_ConsumeFindsEntry ==
    \A t \in Threads :
        op[t] = "Limiter.consume" =>
            /\ result[t] # "KeyError"
            /\ pc[t] \in {"c_read", "c_load", "c_store"} =>
                  /\ key[t] \in Keys
                  /\ buckets[Slot(key[t])].exists

\* A call stands at storage.consume's lookup, its key's entry in the table,
\* while another call's replenish, which had found no entry for that key,
\* is about to store a new one in its place.
C25_Witness ==
    \E t, u \in Threads :
        /\ t # u
        /\ op[t] = "Limiter.consume" /\ pc[t] = "c_read"
        /\ op[u] = "Limiter.consume" /\ pc[u] = "r_new_write"
        /\ key[t] = key[u]
        /\ buckets[key[t]].exists
        /\ \E k \in Keys \ {key[t]} : ~buckets[k].exists

\* C26: the thread-count bound on negative drift.  With N threads calling
\* Limiter.consume on one key for at most m = capacity tokens at a time,
\* the stored count is at least -(N - 1) * m in every state.
C26_ThreadCountBound ==
    \A k \in Keys :
        buckets[k].exists =>
            buckets[k].tokens >=
                -((Cardinality(Threads) - 1) * (Capacity * Unit))

\* C27: the regression guard never fires with a monotonic clock.  No
\* stored timestamp is later than the clock; a replenish about to read the
\* clock holds a last_replenished_at that the clock has reached, so the
\* guard's test now < last_replenished_at is false when it is made; and
\* every replenish past the guard holds now >= last_replenished_at.
C27_GuardNeverFires ==
    /\ \A k \in Keys : buckets[k].exists => buckets[k].last <= clock
    /\ \A t \in Threads :
          /\ pc[t] = "r_now" =>
                /\ last_replenished_at[t] <= clock
                /\ ~Regressed(clock, last_replenished_at[t])
          /\ pc[t] = "r_write" =>
                /\ now[t] >= last_replenished_at[t]
                /\ now[t] <= clock

\* A replenish has passed the guard although the table's timestamp is by
\* now later than the clock value it read: its write is out of order and
\* the guard has not held it back.
C27_Witness ==
    \E t \in Threads :
        /\ pc[t] = "r_write"
        /\ buckets[key[t]].exists
        /\ now[t] < buckets[key[t]].last
        /\ last_replenished_at[t] < now[t]

\* What a single replenish at the time stored with key k's bucket leaves
\* of the bucket as it was before the first replenish.
C28_Single(k) ==
    FloatReplenishedTokens(FloatOfInt(Capacity - granted[k]), FloatReadings[1],
                           buckets[k].last, FloatOfInt(args.rate.val),
                           FloatOfInt(args.capacity.val))

\* Floats x and y differ by no more than capacity * 2^-50.
C28_Close(x, y) ==
    LET d == IF FloatLess(x, y) THEN FloatSub(y, x) ELSE FloatSub(x, y)
    IN  ~FloatLess(FloatOfInt(args.capacity.val),
                   FloatMul(d, FloatFromHex(<<1>>, 50)))

\* C28 as claimed: replenish composes over time.  After replenish calls
\* that follow one another, with no consume, on a bucket that held
\* t0 <= capacity tokens, the bucket holds the very token count that a
\* single replenish at the time stored with it would have left.
C28_ReplenishComposes ==
    \A k \in Keys : buckets[k].tokens = C28_Single(k)

\* C28, amended: replenish composes over time up to the rounding of the
\* float operations.  After such calls the bucket's timestamp is the clock
\* reading of the last of them that changed it, and its token count
\* differs from what a single replenish at that time would have left by
\* rounding errors only, here at most capacity * 2^-50; and a replenish
\* that finds no time elapsed leaves the count exactly as it found it.
C28_ComposesUpToRounding ==
    /\ [](\A k \in Keys : C28_Close(buckets[k].tokens, C28_Single(k)))
    /\ [][\A k \in Keys :
            /\ buckets'[k] # buckets[k] =>
                  buckets'[k].last = FloatReadings[clock + 1]
            /\ buckets'[k].last = buckets[k].last =>
                  buckets'[k].tokens = buckets[k].tokens]_vars

\* A bucket replenished more than once since it was drained holds a count
\* below capacity that is not the count a single replenish at its
\* timestamp would have left.
C28_Witness ==
    \E k \in Keys :
        /\ granted[k] = Capacity
        /\ FloatLess(FloatReadings[1], buckets[k].last)
        /\ FloatLess(buckets[k].tokens, FloatOfInt(args.capacity.val))
        /\ buckets[k].tokens # C28_Single(k)
        /\ C28_Close(buckets[k].tokens, C28_Single(k))

\* What thread t's replenish stored if it stored, unrounded, the count it
\* read plus rate times the time elapsed, capped at capacity.
C29_Accrued(t) ==
    Min(args.capacity.val * Unit,
        seen[t].tokens + (args.rate.val * (seen[t].now - seen[t].last)))

\* C29: fractional tokens are carried.  A Limiter.consume(key, n) with
\* which no other call is interleaved is granted exactly when the count
\* its replenish read plus rate * elapsed, capped at capacity and not
\* rounded, covers n, and leaves that amount less n if granted and that
\* amount if refused, fractions of a token included.
C29_FractionsCarried ==
    \A t \in Threads :
        (/\ pc[t] = "done" /\ op[t] = "Limiter.consume"
         /\ seen[t].found
         /\ snap[t].valid)
        => /\ snap[t].tokens = C29_Accrued(t)
           /\ result[t] = "True" <=>
                 C29_Accrued(t) >= num_tokens[t].val * Unit
           /\ buckets[key[t]].tokens =
                 IF result[t] = "True"
                 THEN C29_Accrued(t) - (num_tokens[t].val * Unit)
                 ELSE C29_Accrued(t)

\* Both examples, one after the other.  Thread t's call for one token was
\* granted on the half token that the refused call before it had accrued
\* from the empty bucket and the half token accrued since, and left the
\* bucket empty; thread u's call for one token, the next, found the bucket
\* still empty, accrued a token and a half, and left half a token.
C29_Witness ==
    \E t, u \in Threads :
        /\ t # u
        /\ 2 * (Unit \div 2) = Unit
        /\ pc[t] = "done" /\ op[t] = "Limiter.consume"
        /\ num_tokens[t].val = 1 /\ result[t] = "True"
        /\ seen[t].found
        /\ 2 * seen[t].tokens = Unit
        /\ seen[t].last > created[key[t]]
        /\ 2 * args.rate.val * (seen[t].last - created[key[t]]) = Unit
        /\ 2 * args.rate.val * (seen[t].now - seen[t].last) = Unit
        /\ pc[u] = "done" /\ op[u] = "Limiter.consume"
        /\ key[u] = key[t]
        /\ num_tokens[u].val = 1 /\ result[u] = "True"
        /\ seen[u].found /\ snap[u].valid
        /\ seen[u].tokens = 0
        /\ seen[u].last = seen[t].now
        /\ 2 * args.rate.val * (seen[u].now - seen[u].last) = 3 * Unit
        /\ 2 * snap[u].tokens = 3 * Unit
        /\ 2 * buckets[key[u]].tokens = Unit

\* The entry under thread t's key when its storage call began.
C30_Before(t) ==
    [exists |-> snap[t].exists, tokens |-> snap[t].tokens,
     last |-> snap[t].last]

\* C30: the two storages agree on calls that follow one another.  A
\* get_token_count, replenish or consume of MemoryStorage with which no
\* other call is interleaved returns what the same call of StorageBase
\* returns on the same entry and the same clock reading, and leaves the
\* entry that call leaves; so the two tables, equal before a sequence of
\* such calls, are equal after each of them.
C30_StoragesAgree ==
    \A t \in Threads :
        (pc[t] = "done" /\ key[t] \in Keys /\ snap[t].valid) =>
            /\ op[t] = "get_token_count" =>
                  /\ count[t] = StorageBaseGetTokenCount(C30_Before(t))
                  /\ buckets[key[t]] = C30_Before(t)
            /\ op[t] = "replenish" =>
                  /\ result[t] = "None"
                  /\ buckets[key[t]] =
                        StorageBaseReplenish(C30_Before(t), now[t], Rate,
                                             Capacity * Unit)
            /\ op[t] = "consume" =>
                  /\ result[t] =
                        StorageBaseConsumeResult(C30_Before(t),
                                                 num_tokens[t].val * Unit)
                  /\ buckets[key[t]] =
                        StorageBaseConsume(C30_Before(t),
                                           num_tokens[t].val * Unit)

\* One thread's consume has debited a bucket that was less than full, and
\* the other's replenish has then added to it, each as the tuple storage
\* would have.
C30_Witness ==
    \E t, u \in Threads :
        /\ t # u
        /\ pc[t] = "done" /\ op[t] = "replenish" /\ snap[t].valid
        /\ snap[t].exists
        /\ snap[t].tokens < buckets[key[t]].tokens
        /\ pc[u] = "done" /\ op[u] = "consume" /\ result[u] = "True"
        /\ key[u] = key[t]
        /\ buckets[key[t]].tokens < Capacity * Unit

=============================================================================
